---- MODULE Spec2Model ----
(***************************************************************************)
(* A model of the pyscripts utilities.                                     *)
(*                                                                         *)
(*   deps.py     dependencies / direct_dependencies / _parallelize_deps /  *)
(*               _relative_deps: the seed probe in a child process, the    *)
(*               expansion rounds on a worker pool, the path rewrite.      *)
(*   display.py  redirect_stdstream: the file descriptors and stream       *)
(*               objects around a scope.                                   *)
(*                                                                         *)
(* Paths are sequences of components; an absolute path starts with the     *)
(* component "/".  Module names are sequences of characters, so that       *)
(* str.startswith is computed and not assumed.                             *)
(***************************************************************************)
EXTENDS Integers, Sequences, FiniteSets, TLC

(***************************************************************************)
(* Bounds of the model.                                                    *)
(***************************************************************************)
\* The number of import bindings (file, module) in the whole environment.
MaxImports == 3
\* The number of redirect_stdstream scopes entered in one run.
MaxScopes == 2
\* The number of writes made to the standard streams in one run.
MaxWrites == 2
\* the calls made to the functions decorated with run_once
MaxCalls == 3
\* the Mode objects defined
MaxModes == 2
\* the calls made on PersistenceDir and PersDirArg objects
MaxPersCalls == 3
\* the threads that call the functions decorated with run_once
MaxThreads == 3

(***************************************************************************)
(* The environment: modules, their names and files.                        *)
(***************************************************************************)
NoFile == <<>>
NoModule == "None"
Idle == <<>>

\* Modules that user files bind in their namespace.
Modules == {"pkg.m1", "pkg.m2", "pkg.m3", "pkgother.mod", "pkg.ext"}

\* Every namespace also holds the members the loader sets (__builtins__,
\* __doc__, __name__: no defining module; __loader__: defined by the frozen
\* module _frozen_importlib_external).  inspect.getmembers sorts by name, so
\* they come before the names bound by imports.
Frozen == "_frozen_importlib_external"
AlwaysBound == {Frozen, NoModule}

\* mod.__name__
ModName(m) ==
    CASE m = "pkg.m1"       -> <<"p","k","g",".","m","1">>
      [] m = "pkg.m2"       -> <<"p","k","g",".","m","2">>
      [] m = "pkg.m3"       -> <<"p","k","g",".","m","3">>
      [] m = "pkg.ext"      -> <<"p","k","g",".","e","x","t">>
      [] m = "pkgother.mod" -> <<"p","k","g","o","t","h","e","r",".","m","o","d">>
      [] m = Frozen         -> <<"_","f","r","o","z","e","n","_","i","m","p","o","r",
                                 "t","l","i","b","_","e","x","t","e","r","n","a","l">>

\* mod.__file__; a module compiled into the interpreter has no __file__
\* attribute (NoFile: reading it raises AttributeError).  The package
\* pkgother is found through the sys.path entry /proj/scripts/lib/.., which
\* the import system keeps as it is in __file__.
ModFile(m) ==
    CASE m = "pkg.m1"       -> <<"/","proj","pkg","m1.py">>
      [] m = "pkg.m2"       -> <<"/","proj","pkg","m2.py">>
      [] m = "pkg.m3"       -> <<"/","proj","pkg","m3.py">>
      [] m = "pkgother.mod" -> <<"/","proj","scripts","lib","..","pkgother",
                                 "mod.py">>
      [] m = "pkg.ext"      -> NoFile
      [] m = Frozen         -> NoFile

ModuleFiles == {ModFile(m) : m \in Modules} \ {NoFile}

\* The seed file a call is made on: the package pkg lies beside its
\* directory, the package pkgother below it.
SeedFiles == {<<"/","proj","scripts","main.py">>}

\* The package names a call is made with.
PkgNames == {<<"p","k","g">>}

PoolSizes == {1, 2}

(***************************************************************************)
(* str.startswith and the os.path functions.                               *)
(***************************************************************************)
StartsWith(s, prefix) ==
    /\ Len(prefix) <= Len(s)
    /\ SubSeq(s, 1, Len(prefix)) = prefix

IsAbs(p) == Len(p) > 0 /\ p[1] = "/"

dirname(p) == SubSeq(p, 1, Len(p) - 1)

\* os.path.normpath: "." dropped, "x/.." collapsed.
RECURSIVE NormInto(_, _)
NormInto(acc, rest) ==
    IF rest = <<>> THEN acc
    ELSE LET c == Head(rest) IN
         IF c = "." THEN NormInto(acc, Tail(rest))
         ELSE IF c = ".." /\ Len(acc) > 0 /\ acc[Len(acc)] \notin {"..", "/"}
              THEN NormInto(SubSeq(acc, 1, Len(acc) - 1), Tail(rest))
         ELSE IF c = ".." /\ Len(acc) > 0 /\ acc[Len(acc)] = "/"
              THEN NormInto(acc, Tail(rest))
         ELSE NormInto(Append(acc, c), Tail(rest))

normpath(p) == NormInto(<<>>, p)

\* Length of the longest common prefix of two component sequences.
RECURSIVE CommonLen(_, _)
CommonLen(a, b) ==
    IF Len(a) = 0 \/ Len(b) = 0 \/ Head(a) # Head(b) THEN 0
    ELSE 1 + CommonLen(Tail(a), Tail(b))

RECURSIVE Ups(_)
Ups(n) == IF n = 0 THEN <<>> ELSE <<"..">> \o Ups(n - 1)

\* os.path.relpath(d, start) for absolute d and start: both are normalised
\* (os.path.abspath) before they are compared.
relpath(d, start) ==
    LET path_list == normpath(d)
        start_list == normpath(start)
        k == CommonLen(path_list, start_list)
        rel == Ups(Len(start_list) - k)
                 \o SubSeq(path_list, k + 1, Len(path_list))
    IN IF rel = <<>> THEN <<".">> ELSE rel

\* os.path.join(a, b): b replaces a when b is absolute, else is appended.
join(a, b) == IF IsAbs(b) THEN b ELSE a \o b



(***************************************************************************)
(* State.                                                                  *)
(***************************************************************************)
VARIABLES
    \* the environment of a dependencies() call
    imports,        \* file -> the modules that define the members it binds
    raises,         \* the files whose top-level code raises when loaded
    \* the arguments of the call
    pyfile, pkg_name, abspath, pool_size,
    \* dependencies(): the parent process
    pc,             \* position of the parent in dependencies()
    chan,           \* the messages in flight on the pipe
    except_event,   \* multiprocessing.Event
    deps, diff,     \* the locals of dependencies()
    pool,           \* "none" until multiprocessing.Pool is created
    tasks,          \* files of the round no worker has taken yet
    workers,        \* worker -> the file it is processing, or Idle
    results,        \* file of the round -> what direct_dependencies gave
    outcome,        \* what the call gave its caller
    \* _parallelize_deps(): the child process
    cpc,            \* position of the child
    c_todo,         \* members of the loaded module not yet inspected
    c_local,        \* the local "deps" of direct_dependencies in the child
    c_deps,         \* the local "deps" of _parallelize_deps
    \* history of the call
    nsent, nrecv,   \* messages sent and received on the pipe
    flag_sets, flag_reads,
    recv_at_join,   \* nrecv when the parent began to wait for the child
    expanded,       \* file -> times it was dispatched to the pool
    rounds,         \* expansion rounds started
    first           \* the previous call on the same (pyfile, pkg_name)

envVars == <<imports, raises, pyfile, pkg_name>>
argVars == <<abspath, pool_size>>
parentVars == <<pc, chan, except_event, deps, diff, pool, tasks, workers,
                results, outcome>>
childVars == <<cpc, c_todo, c_local, c_deps>>
histVars == <<nsent, nrecv, flag_sets, flag_reads, recv_at_join, expanded,
              rounds, first>>
depsVars == <<envVars, argVars, parentVars, childVars, histVars>>

VARIABLES
    \* the process that uses redirect_stdstream
    fdt,            \* open file descriptor -> the file it refers to
    sys_stream,     \* "stdout"/"stderr" -> the object sys.<stream>: its file
                    \* descriptor and the text it holds unflushed
    c_stream,       \* "stdout"/"stderr" -> the text libc holds unflushed
    written,        \* file -> the text written to it, in order
    scopes,         \* the redirect_stdstream scopes entered and not exited,
                    \* innermost last: the locals of each generator
    ostreams,       \* scope number -> the text in its ostream
    raising,        \* an exception is propagating
    nscopes,        \* scopes entered so far
    nwrites,        \* writes made so far
    exited          \* the scopes exited: how, and where the stream pointed
                    \* before the scope and after it

redirVars == <<fdt, sys_stream, c_stream, written, scopes, ostreams, raising,
               nscopes, nwrites, exited>>

VARIABLES
    \* the functions decorated with run_once
    has_run,        \* decorated function -> the attribute has_run of its wrapper
    once_call,      \* the call whose function body is running, or NoCurrent
    once_outer,     \* the calls whose function body waits for a call it
                    \* made, outermost first
    invocations,    \* the invocations of the decorated functions, in order
    once_log        \* the calls of the wrappers that have ended, in order

onceVars == <<has_run, once_call, once_outer, invocations, once_log>>

VARIABLES
    \* the threads that call the wrappers of run_once at the same time
    threads         \* thread -> where it is in the wrapper, and of which
                    \* function

VARIABLES
    \* the modes of a script
    mode_objs,      \* the Mode objects defined, in the order of definition
    mode_last       \* the last call of a Mode or of extends, and its outcome

modeVars == <<mode_objs, mode_last>>

VARIABLES
    \* the persistence directories of a script
    pdirs,          \* the PersistenceDir objects built, in the order of
                    \* construction: an object is known by its place
    dirs,           \* the directories on disk, from the working directory
    pers_calls      \* the calls that have ended, and what they showed

persVars == <<pdirs, dirs, pers_calls>>

VARIABLES
    \* a ModeArgumentParser
    _modes,         \* name of a mode -> its function (the parser of a mode
                    \* is in subparsers)
    _callable_name, \* the attribute the function of a mode is stored in
    subparsers,     \* whether add_subparsers was called and, for each
                    \* sub-command, the defaults of its parser
    parse_last      \* the last call on the parser and what it showed

parserVars == <<_modes, _callable_name, subparsers, parse_last>>

vars == <<depsVars, redirVars, onceVars, threads, modeVars, persVars,
          parserVars>>

\* What a step of dependencies(), a step around a redirect_stdstream scope
\* and a step of a run_once wrapper leave alone.
notDeps == <<redirVars, onceVars, threads, modeVars, persVars, parserVars>>
notRedir == <<depsVars, onceVars, threads, modeVars, persVars, parserVars>>
notOnce == <<depsVars, redirVars, threads, modeVars, persVars, parserVars>>
notModes == <<depsVars, redirVars, onceVars, threads, persVars, parserVars>>
notPers == <<depsVars, redirVars, onceVars, threads, modeVars, parserVars>>
notParser == <<depsVars, redirVars, onceVars, threads, modeVars, persVars>>
notThreads == <<depsVars, redirVars, once_call, once_outer, once_log, modeVars,
                persVars, parserVars>>

(***************************************************************************)
(* deps.py: direct_dependencies                                            *)
(***************************************************************************)
\* inspect.getmembers(main_mod), each member as inspect.getmodule gives it.
Members(f) == imports[f] \cup AlwaysBound

\* deps.py:115, the test on a member's defining module.
Recorded(mod, pkg) == mod # NoModule /\ StartsWith(ModName(mod), pkg)

\* A slip in _relative_deps: paths taken relative to the file, not to its
\* directory.
_relative_deps_file(file, ds) == {relpath(d, normpath(file)) : d \in ds}

\* deps.py:151-167
_relative_deps(file, ds) ==
    LET pyfile_dir == dirname(normpath(file))
    IN {relpath(d, pyfile_dir) : d \in ds}

\* Whether direct_dependencies(f, pkg) raises: the load raises (deps.py:109)
\* or a recorded module has no __file__ (deps.py:116).
DirectRaises(f, pkg) ==
    \/ f \in raises
    \/ \E m \in Members(f) : Recorded(m, pkg) /\ ModFile(m) = NoFile

\* The value direct_dependencies(f, pkg, ap) returns when it does not raise.
direct_dependencies(f, pkg, ap) ==
    LET ds == {ModFile(m) : m \in {x \in Members(f) : Recorded(x, pkg)}}
    IN IF ap THEN ds ELSE _relative_deps(f, ds)


(***************************************************************************)
(* The environments a call is made in: at most MaxImports bindings, all    *)
(* of them in files a resolution can come to load (the namespace of a file *)
(* that is never loaded has no effect), and at most one file that raises.  *)
(***************************************************************************)
Loadable(E, seed) == {seed} \cup ({ModFile(e[2]) : e \in E} \ {NoFile})

RECURSIVE Grow(_, _, _)
Grow(E, n, seed) ==
    IF n = 0 THEN {E}
    ELSE {E} \cup UNION {Grow(E \cup {e}, n - 1, seed) :
                            e \in (Loadable(E, seed) \X Modules) \ E}

Environments(seed) == Grow({}, MaxImports, seed)

NoOutcome == [kind |-> "none", value |-> {}, type |-> "", file |-> <<>>]
Returned(v) == [kind |-> "return", value |-> v, type |-> "", file |-> <<>>]
Raised(t, f) == [kind |-> "raise", value |-> {}, type |-> t, file |-> f]

\* deps.py:22
__pool_size__ == 4

\* The members of a sequence.
Range(q) == {q[i] : i \in DOMAIN q}

NoCall == [outcome |-> NoOutcome, abspath |-> FALSE, pool_size |-> 0]

DepsInit ==
    /\ pyfile \in SeedFiles
    /\ pkg_name \in PkgNames
    /\ \E E \in Environments(pyfile) :
         /\ imports = [f \in {pyfile} \cup ModuleFiles |->
                         {e[2] : e \in {x \in E : x[1] = f}}]
         /\ raises \in {{}} \cup {{f} : f \in Loadable(E, pyfile)}
    /\ abspath = FALSE
    /\ pool_size = __pool_size__
    /\ pc = "idle"
    /\ chan = <<>>
    /\ except_event = FALSE
    /\ deps = {}
    /\ diff = {}
    /\ pool = "none"
    /\ tasks = {}
    /\ workers = <<>>
    /\ results = {}
    /\ outcome = NoOutcome
    /\ cpc = "none"
    /\ c_todo = {}
    /\ c_local = {}
    /\ c_deps = {}
    /\ nsent = 0
    /\ nrecv = 0
    /\ flag_sets = 0
    /\ flag_reads = 0
    /\ recv_at_join = 0
    /\ expanded = [f \in ModuleFiles |-> 0]
    /\ rounds = 0
    /\ first = NoCall

(***************************************************************************)
(* deps.py: dependencies(), lines 51-58.  A call begins: the pipe and the  *)
(* event are created and the child process is started.  A second call on   *)
(* the same (pyfile, pkg_name) may follow the first, with other options.   *)
(***************************************************************************)
Begin(ap, ps) ==
    /\ abspath' = ap
    /\ pool_size' = ps
    /\ pc' = "recv"
    /\ chan' = <<>>
    /\ except_event' = FALSE
    /\ deps' = {}
    /\ diff' = {}
    /\ pool' = "none"
    /\ tasks' = {}
    /\ workers' = <<>>
    /\ results' = {}
    /\ outcome' = NoOutcome
    /\ cpc' = "load"
    /\ c_todo' = {}
    /\ c_local' = {}
    /\ c_deps' = {}
    /\ nsent' = 0
    /\ nrecv' = 0
    /\ flag_sets' = 0
    /\ flag_reads' = 0
    /\ recv_at_join' = 0
    /\ expanded' = [f \in ModuleFiles |-> 0]
    /\ rounds' = 0
    /\ UNCHANGED <<notDeps, envVars>>

Call(ap, ps) ==
    /\ pc = "idle"
    /\ Begin(ap, ps)
    /\ UNCHANGED first

CallAgain(ap, ps) ==
    /\ pc \in {"done", "raised"}
    /\ first = NoCall
    /\ first' = [outcome |-> outcome, abspath |-> abspath,
                 pool_size |-> pool_size]
    /\ Begin(ap, ps)

(***************************************************************************)
(* deps.py: _parallelize_deps(), lines 141-148, with the body of           *)
(* direct_dependencies (lines 102-121) it runs, member by member.          *)
(***************************************************************************)
\* deps.py:107-116: the file is loaded and the members the loader sets are
\* inspected (none of them is recorded unless pkg_name is a prefix of
\* the frozen module's name, whose __file__ is missing).
ChildLoad ==
    /\ cpc = "load"
    /\ IF \/ pyfile \in raises
          \/ \E m \in AlwaysBound : Recorded(m, pkg_name)
       THEN /\ cpc' = "except"
            /\ UNCHANGED <<c_todo, c_local>>
       ELSE /\ cpc' = "inspect"
            /\ c_todo' = imports[pyfile]
            /\ c_local' = {}
    /\ UNCHANGED <<notDeps, envVars, argVars, parentVars, c_deps, histVars>>

\* deps.py:111-116: the next member of the namespace is inspected.  The
\* order is the order of the names the file binds its imports to: any order.
ChildInspect(m) ==
    /\ cpc = "inspect"
    /\ m \in c_todo
    /\ c_todo' = c_todo \ {m}
    /\ IF Recorded(m, pkg_name)
       THEN IF ModFile(m) = NoFile
            THEN cpc' = "except" /\ UNCHANGED c_local
            ELSE cpc' = cpc /\ c_local' = c_local \cup {ModFile(m)}
       ELSE UNCHANGED <<cpc, c_local>>
    /\ UNCHANGED <<notDeps, envVars, argVars, parentVars, c_deps, histVars>>

\* deps.py:118-121 and 143: direct_dependencies returns (abspath is True,
\* deps.py:56) and its value is bound to deps of _parallelize_deps.
ChildReturn ==
    /\ cpc = "inspect"
    /\ c_todo = {}
    /\ c_deps' = c_local
    /\ cpc' = "send"
    /\ UNCHANGED <<notDeps, envVars, argVars, parentVars, c_todo, c_local, histVars>>

\* A slip in the handler: the error is swallowed, the event is not set.
ChildExceptNoSet ==
    /\ cpc = "except"
    /\ cpc' = "send"
    /\ UNCHANGED <<notDeps, envVars, argVars, parentVars, c_todo, c_local, c_deps,
                   histVars>>

\* A slip in the handler: the message is sent by the try body only, so that
\* a failed extraction sends nothing.
ChildExceptNoSend ==
    /\ cpc = "except"
    /\ except_event' = TRUE
    /\ flag_sets' = flag_sets + 1
    /\ cpc' = "close"
    /\ UNCHANGED <<notDeps, envVars, argVars, pc, chan, deps, diff, pool, tasks,
                   workers, results, outcome, c_todo, c_local, c_deps,
                   nsent, nrecv, flag_reads, recv_at_join, expanded, rounds,
                   first>>

\* deps.py:144-145
ChildExcept ==
    /\ cpc = "except"
    /\ except_event' = TRUE
    /\ flag_sets' = flag_sets + 1
    /\ cpc' = "send"
    /\ UNCHANGED <<notDeps, envVars, argVars, pc, chan, deps, diff, pool, tasks,
                   workers, results, outcome, c_todo, c_local, c_deps,
                   nsent, nrecv, flag_reads, recv_at_join, expanded, rounds,
                   first>>

\* A slip in the message: the set direct_dependencies was filling is sent.
MessagePartial == c_local

\* What the child puts on the pipe, deps.py:147.
Message == c_deps

\* deps.py:146-147
ChildSend ==
    /\ cpc = "send"
    /\ chan' = Append(chan, Message)
    /\ nsent' = nsent + 1
    /\ cpc' = "close"
    /\ UNCHANGED <<notDeps, envVars, argVars, pc, except_event, deps, diff, pool,
                   tasks, workers, results, outcome, c_todo, c_local, c_deps,
                   nrecv, flag_sets, flag_reads, recv_at_join, expanded,
                   rounds, first>>

\* deps.py:148 and the end of the process.
ChildExit ==
    /\ cpc = "close"
    /\ cpc' = "exited"
    /\ UNCHANGED <<notDeps, envVars, argVars, parentVars, c_todo, c_local, c_deps,
                   histVars>>


(***************************************************************************)
(* deps.py: dependencies(), lines 59-83.                                   *)
(***************************************************************************)
\* deps.py:59: parent.recv() blocks until a message is on the pipe.
Recv ==
    /\ pc = "recv"
    /\ chan # <<>>
    /\ deps' = Head(chan)
    /\ chan' = Tail(chan)
    /\ nrecv' = nrecv + 1
    /\ recv_at_join' = nrecv + 1
    /\ pc' = "join"
    /\ UNCHANGED <<notDeps, envVars, argVars, except_event, diff, pool, tasks,
                   workers, results, outcome, childVars, nsent, flag_sets,
                   flag_reads, expanded, rounds, first>>

\* deps.py:60: process.join() blocks until the child has ended.
Join ==
    /\ pc = "join"
    /\ cpc = "exited"
    /\ pc' = "check"
    /\ UNCHANGED <<notDeps, envVars, argVars, chan, except_event, deps, diff, pool,
                   tasks, workers, results, outcome, childVars, histVars>>

\* The error of deps.py:63.
SeedError == Raised("RuntimeError", pyfile)

\* deps.py:62-63
CheckRaise ==
    /\ pc = "check"
    /\ except_event
    /\ flag_reads' = flag_reads + 1
    /\ outcome' = SeedError
    /\ pc' = "raised"
    /\ UNCHANGED <<notDeps, envVars, argVars, chan, except_event, deps, diff, pool,
                   tasks, workers, results, childVars, nsent, nrecv,
                   flag_sets, recv_at_join, expanded, rounds, first>>

\* A slip in the start of the loop: the seed file is handed to the first
\* round with its dependencies.
CheckOkWithSeed ==
    /\ pc = "check"
    /\ ~except_event
    /\ flag_reads' = flag_reads + 1
    /\ pool' = "open"
    /\ workers' = [w \in 1..pool_size |-> Idle]
    /\ diff' = deps \cup {pyfile}
    /\ pc' = "loop"
    /\ UNCHANGED <<notDeps, envVars, argVars, chan, except_event, deps, tasks,
                   results, outcome, childVars, nsent, nrecv, flag_sets,
                   recv_at_join, expanded, rounds, first>>

\* A slip in the check: the parent goes on to the expansion whatever the
\* flag holds.
CheckOkUnchecked ==
    /\ pc = "check"
    /\ flag_reads' = flag_reads + 1
    /\ pool' = "open"
    /\ workers' = [w \in 1..pool_size |-> Idle]
    /\ diff' = deps
    /\ pc' = "loop"
    /\ UNCHANGED <<notDeps, envVars, argVars, chan, except_event, deps, tasks,
                   results, outcome, childVars, nsent, nrecv, flag_sets,
                   recv_at_join, expanded, rounds, first>>

\* deps.py:62, 66, 68: the flag is not set; the pool is created.
CheckOk ==
    /\ pc = "check"
    /\ ~except_event
    /\ flag_reads' = flag_reads + 1
    /\ pool' = "open"
    /\ workers' = [w \in 1..pool_size |-> Idle]
    /\ diff' = deps
    /\ pc' = "loop"
    /\ UNCHANGED <<notDeps, envVars, argVars, chan, except_event, deps, tasks,
                   results, outcome, childVars, nsent, nrecv, flag_sets,
                   recv_at_join, expanded, rounds, first>>

\* deps.py:69-74: diff is not empty; pool.map hands its files to the pool
\* (one file per task: the chunk size is 1 up to 4 * pool_size files).
StartRound ==
    /\ pc = "loop"
    /\ diff # {}
    /\ tasks' = diff
    /\ results' = {}
    /\ expanded' = [f \in ModuleFiles |->
                      IF f \in diff THEN expanded[f] + 1 ELSE expanded[f]]
    /\ rounds' = rounds + 1
    /\ pc' = "map"
    /\ UNCHANGED <<notDeps, envVars, argVars, chan, except_event, deps, diff, pool,
                   workers, outcome, childVars, nsent, nrecv, flag_sets,
                   flag_reads, recv_at_join, first>>

\* A worker of the pool takes a task, any task: the order in which the files
\* of one round are processed and their split among the workers are free.
WorkerTake(w, f) ==
    /\ pc = "map"
    /\ w \in DOMAIN workers
    /\ workers[w] = Idle
    /\ f \in tasks
    /\ workers' = [workers EXCEPT ![w] = f]
    /\ tasks' = tasks \ {f}
    /\ UNCHANGED <<notDeps, envVars, argVars, pc, chan, except_event, deps, diff,
                   pool, results, outcome, childVars, histVars>>

\* A slip in the worker: its error is caught and becomes an empty value.
TaskResultCaught(f) ==
    IF DirectRaises(f, pkg_name)
    THEN [file |-> f, raised |-> FALSE, value |-> {}]
    ELSE [file |-> f, raised |-> FALSE,
          value |-> direct_dependencies(f, pkg_name, TRUE)]

\* What a worker gives for a file: bound(f) of deps.py:71-72, or its error.
TaskResult(f) ==
    IF DirectRaises(f, pkg_name)
    THEN [file |-> f, raised |-> TRUE, value |-> {}]
    ELSE [file |-> f, raised |-> FALSE,
          value |-> direct_dependencies(f, pkg_name, TRUE)]

\* The worker runs direct_dependencies on its file and hands the result in.
WorkerDone(w) ==
    /\ pc = "map"
    /\ w \in DOMAIN workers
    /\ workers[w] # Idle
    /\ results' = results \cup {TaskResult(workers[w])}
    /\ workers' = [workers EXCEPT ![w] = Idle]
    /\ UNCHANGED <<notDeps, envVars, argVars, pc, chan, except_event, deps, diff,
                   pool, tasks, outcome, childVars, histVars>>

RoundOver == tasks = {} /\ \A w \in DOMAIN workers : workers[w] = Idle

\* A slip in the chaining: one result of the map is used, the rest dropped.
ChainedOne(rs) == IF rs = {} THEN {} ELSE (CHOOSE r \in rs : TRUE).value

\* A slip in the chaining: one result per worker of the pool is used.
ChainedPerWorker(rs) ==
    LET n == IF Cardinality(rs) < pool_size THEN Cardinality(rs)
             ELSE pool_size
    IN UNION {r.value : r \in CHOOSE S \in SUBSET rs : Cardinality(S) = n}

\* deps.py:74, itertools.chain.from_iterable over the results of the map.
Chained(rs) == UNION {r.value : r \in rs}

\* A slip in the difference: the files of the round that ends are not taken
\* for known.
NewDiffRound(new_deps, known) == new_deps \ (known \ diff)

\* A slip in the difference: the known files are not taken out.
NewDiffAll(new_deps, known) == new_deps

\* deps.py:76
NewDiff(new_deps, known) == new_deps \ known

\* A slip in the update: the known set is replaced by the new files.
UpdatedReplace(known, new) == new

\* deps.py:78, deps.update(diff)
Updated(known, new) == known \cup new

\* deps.py:74: pool.map re-raises the error of a task in the parent.
MapRaise ==
    /\ pc = "map"
    /\ RoundOver
    /\ \E r \in results :
         /\ r.raised
         /\ outcome' = Raised("WorkerError", r.file)
    /\ pc' = "raised"
    /\ UNCHANGED <<notDeps, envVars, argVars, chan, except_event, deps, diff, pool,
                   tasks, workers, results, childVars, histVars>>

\* deps.py:74-78: every task of the round gave a value.
EndRound ==
    /\ pc = "map"
    /\ RoundOver
    /\ \A r \in results : ~r.raised
    /\ LET new_deps == Chained(results)
       IN /\ diff' = NewDiff(new_deps, deps)
          /\ deps' = Updated(deps, NewDiff(new_deps, deps))
    /\ pc' = "loop"
    /\ UNCHANGED <<notDeps, envVars, argVars, chan, except_event, pool, tasks,
                   workers, results, outcome, childVars, histVars>>

\* A slip in the returned value: the seed file is among its dependencies.
ReturnValueWithSeed ==
    IF abspath THEN deps \cup {pyfile}
    ELSE _relative_deps(pyfile, deps \cup {pyfile})

\* deps.py:80-83, the value the call returns.
ReturnValue == IF abspath THEN deps ELSE _relative_deps(pyfile, deps)

\* deps.py:69, 80-83: diff is empty; the loop ends and the call returns.
Return ==
    /\ pc = "loop"
    /\ diff = {}
    /\ outcome' = Returned(ReturnValue)
    /\ pc' = "done"
    /\ UNCHANGED <<notDeps, envVars, argVars, chan, except_event, deps, diff, pool,
                   tasks, workers, results, childVars, histVars>>

(***************************************************************************)
(* display.py: redirect_stdstream.  Files are numbered: 1 and 2 are what   *)
(* the standard output and error of the process refer to when it starts,   *)
(* 2 + k is the k-th temporary file.                                       *)
(***************************************************************************)
Streams == {"stdout", "stderr"}

OrigDest(istream) == IF istream = "stdout" THEN 1 ELSE 2

TmpFile(k) == 2 + k

Files == 1..TmpFile(MaxScopes)

\* The descriptor libc's stdout / stderr write to.
CFd(istream) == IF istream = "stdout" THEN 1 ELSE 2

\* os.dup and the creation of a file give the lowest descriptor not in use.
LowestFree(t) ==
    CHOOSE n \in 0..(3 + 2 * MaxScopes) :
        /\ n \notin DOMAIN t
        /\ \A k \in 0..(n - 1) : k \in DOMAIN t

\* The table t with descriptor fd made to refer to file f.
SetFd(t, fd, f) == [k \in DOMAIN t \cup {fd} |-> IF k = fd THEN f ELSE t[k]]

CloseFd(t, fd) == [k \in DOMAIN t \ {fd} |-> t[k]]

\* Text written through descriptor fd reaches the file it refers to.
WriteFd(w, t, fd, text) ==
    IF fd \in DOMAIN t THEN [w EXCEPT ![t[fd]] = @ \o text] ELSE w

RedirInit ==
    /\ fdt = [k \in 0..2 |-> k]
    /\ sys_stream = [i \in Streams |-> [fd |-> CFd(i), buf |-> <<>>]]
    /\ c_stream = [i \in Streams |-> <<>>]
    /\ written = [f \in Files |-> <<>>]
    /\ scopes = <<>>
    /\ ostreams = <<>>
    /\ raising = FALSE
    /\ nscopes = 0
    /\ nwrites = 0
    /\ exited = <<>>

\* display.py:123-140, _redirect(to_fd, istream) on the state (t, w): libc's
\* buffer is flushed, sys.<istream> is flushed and closed with its
\* descriptor, the descriptor is made a copy of to_fd and a new sys.<istream>
\* is made on it.
RedirectFiles(w, t, to_fd, istream) ==
    LET fd == sys_stream[istream].fd
        w1 == WriteFd(w, t, CFd(istream), c_stream[istream])
    IN WriteFd(w1, t, fd, sys_stream[istream].buf)

RedirectFds(t, to_fd, istream) ==
    SetFd(CloseFd(t, sys_stream[istream].fd), sys_stream[istream].fd,
          t[to_fd])

\* display.py:108-116: an unknown stream name or type; ValueError is raised
\* before anything is touched.
EnterInvalid ==
    /\ ~raising
    /\ raising' = TRUE
    /\ UNCHANGED <<notRedir, fdt, sys_stream, c_stream, written, scopes, ostreams,
                   nscopes, nwrites, exited>>

\* display.py:118-153: the scope is entered, up to the yield.
Enter(istream) ==
    /\ ~raising
    /\ nscopes < MaxScopes
    /\ LET original_stream_fd == sys_stream[istream].fd
           saved_stream_fd == LowestFree(fdt)
           t1 == SetFd(fdt, saved_stream_fd, fdt[original_stream_fd])
           tfile == LowestFree(t1)
           t2 == SetFd(t1, tfile, TmpFile(nscopes + 1))
       IN /\ written' = RedirectFiles(written, t2, tfile, istream)
          /\ fdt' = RedirectFds(t2, tfile, istream)
          /\ scopes' = Append(scopes,
                 [istream |-> istream,
                  original_stream_fd |-> original_stream_fd,
                  saved_stream_fd |-> saved_stream_fd,
                  tfile |-> tfile,
                  tmp |-> TmpFile(nscopes + 1),
                  ostream |-> nscopes + 1,
                  before |-> fdt[original_stream_fd]])
    /\ sys_stream' = [sys_stream EXCEPT ![istream].buf = <<>>]
    /\ c_stream' = [c_stream EXCEPT ![istream] = <<>>]
    /\ ostreams' = Append(ostreams, <<>>)
    /\ nscopes' = nscopes + 1
    /\ UNCHANGED <<notRedir, raising, nwrites, exited>>

\* The innermost open scope that redirects istream (0: none).
InnermostOn(istream) ==
    LET on == {k \in 1..Len(scopes) : scopes[k].istream = istream}
    IN IF on = {} THEN 0
       ELSE scopes[CHOOSE k \in on : \A j \in on : j <= k].ostream

\* A piece of text: the number of the write that made it, who wrote it, the
\* stream it was written to and the scope it was written in.
Text(via, istream) ==
    [n |-> nwrites + 1, via |-> via, stream |-> istream,
     scope |-> InnermostOn(istream)]

\* print(..., file=sys.<istream>): the text is held by the stream object.
WritePy(istream) ==
    /\ ~raising
    /\ nwrites < MaxWrites
    /\ sys_stream' = [sys_stream EXCEPT ![istream].buf =
                        Append(@, Text("py", istream))]
    /\ nwrites' = nwrites + 1
    /\ UNCHANGED <<notRedir, fdt, c_stream, written, scopes, ostreams, raising,
                   nscopes, exited>>

\* A write of C code to stdout / stderr: the text is held by libc.
WriteC(istream) ==
    /\ ~raising
    /\ nwrites < MaxWrites
    /\ c_stream' = [c_stream EXCEPT ![istream] =
                      Append(@, Text("c", istream))]
    /\ nwrites' = nwrites + 1
    /\ UNCHANGED <<notRedir, fdt, sys_stream, written, scopes, ostreams, raising,
                   nscopes, exited>>

\* The stream object writes out what it holds (a full buffer, a line end on
\* a line-buffered stream, an explicit flush).
FlushPy(istream) ==
    /\ sys_stream[istream].buf # <<>>
    /\ written' = WriteFd(written, fdt, sys_stream[istream].fd,
                          sys_stream[istream].buf)
    /\ sys_stream' = [sys_stream EXCEPT ![istream].buf = <<>>]
    /\ UNCHANGED <<notRedir, fdt, c_stream, scopes, ostreams, raising, nscopes,
                   nwrites, exited>>

\* libc writes out what it holds.
FlushC(istream) ==
    /\ c_stream[istream] # <<>>
    /\ written' = WriteFd(written, fdt, CFd(istream), c_stream[istream])
    /\ c_stream' = [c_stream EXCEPT ![istream] = <<>>]
    /\ UNCHANGED <<notRedir, fdt, sys_stream, scopes, ostreams, raising, nscopes,
                   nwrites, exited>>

\* The body of the innermost scope raises.
BodyRaise ==
    /\ ~raising
    /\ scopes # <<>>
    /\ raising' = TRUE
    /\ UNCHANGED <<notRedir, fdt, sys_stream, c_stream, written, scopes, ostreams,
                   nscopes, nwrites, exited>>

\* The exception is handled by the code around the scopes.
Catch ==
    /\ raising
    /\ raising' = FALSE
    /\ UNCHANGED <<notRedir, fdt, sys_stream, c_stream, written, scopes, ostreams,
                   nscopes, nwrites, exited>>

Innermost == scopes[Len(scopes)]

ExitRecord(sc, how, t) ==
    [istream |-> sc.istream, scope |-> sc.ostream, how |-> how,
     before |-> sc.before,
     after |-> IF sc.original_stream_fd \in DOMAIN t
               THEN t[sc.original_stream_fd] ELSE 0]

\* display.py:155-165: the body ended; the generator resumes after the
\* yield, redirects the stream back to the saved descriptor, copies the
\* temporary file to ostream and runs the finally clause.
ExitNormal ==
    /\ ~raising
    /\ scopes # <<>>
    /\ LET sc == Innermost
           w1 == RedirectFiles(written, fdt, sc.saved_stream_fd, sc.istream)
           t1 == RedirectFds(fdt, sc.saved_stream_fd, sc.istream)
           t2 == CloseFd(CloseFd(t1, sc.tfile), sc.saved_stream_fd)
       IN /\ written' = w1
          /\ ostreams' = [ostreams EXCEPT ![sc.ostream] = @ \o w1[sc.tmp]]
          /\ fdt' = t2
          /\ sys_stream' = [sys_stream EXCEPT ![sc.istream].buf = <<>>]
          /\ c_stream' = [c_stream EXCEPT ![sc.istream] = <<>>]
          /\ exited' = Append(exited, ExitRecord(sc, "normal", t2))
    /\ scopes' = SubSeq(scopes, 1, Len(scopes) - 1)
    /\ UNCHANGED <<notRedir, raising, nscopes, nwrites>>

\* display.py:153, 163-165: the body raised; the exception is thrown into
\* the generator at the yield, so that only the finally clause runs.
ExitError ==
    /\ raising
    /\ scopes # <<>>
    /\ LET sc == Innermost
           t2 == CloseFd(CloseFd(fdt, sc.tfile), sc.saved_stream_fd)
       IN /\ fdt' = t2
          /\ exited' = Append(exited, ExitRecord(sc, "error", t2))
    /\ scopes' = SubSeq(scopes, 1, Len(scopes) - 1)
    /\ UNCHANGED <<notRedir, sys_stream, c_stream, written, ostreams, raising, nscopes,
                   nwrites>>

RedirNext ==
    \/ EnterInvalid
    \/ \E i \in Streams : Enter(i)
    \/ \E i \in Streams : WritePy(i)
    \/ \E i \in Streams : WriteC(i)
    \/ \E i \in Streams : FlushPy(i)
    \/ \E i \in Streams : FlushC(i)
    \/ BodyRaise
    \/ Catch
    \/ ExitNormal
    \/ ExitError

(***************************************************************************)
(* core.py: run_once (the same code stands in deps.py:170-192).            *)
(***************************************************************************)
\* The decorated functions, the arguments they are called with and the
\* values they return; None is Python's None.
Funcs == {"func", "load"}
Args == {"x", "y"}
None == "None"
Values == {None, "1", "2"}

NoCurrent == [f |-> "", args |-> "", before |-> FALSE]

\* core.py:60: the wrappers as the decorator leaves them.
OnceInit ==
    /\ has_run = [f \in Funcs |-> FALSE]
    /\ once_call = NoCurrent
    /\ once_outer = <<>>
    /\ invocations = <<>>
    /\ once_log = <<>>

\* The record of a call that has ended.
Ended(f, args, before, invoked, how, ret, inside) ==
    [f |-> f, args |-> args, before |-> before, invoked |-> invoked,
     how |-> how, ret |-> ret, inside |-> inside]

\* A slip in the wrapper: the flag is read and never set.
wrapperNoSet(f, args) ==
    /\ once_call = NoCurrent
    /\ Len(once_log) < MaxCalls
    /\ IF has_run[f] = FALSE
       THEN /\ once_call' = [f |-> f, args |-> args, before |-> has_run[f]]
            /\ invocations' = Append(invocations, [f |-> f, args |-> args])
            /\ UNCHANGED <<has_run, once_log>>
       ELSE /\ once_log' = Append(once_log,
                               Ended(f, args, has_run[f], FALSE, "return", None,
                                     ""))
            /\ UNCHANGED <<has_run, once_call, invocations>>
    /\ UNCHANGED <<notOnce, once_outer>>

\* core.py:56-58: the wrapper is called.  With has_run False it sets it and
\* calls the function with its own arguments; otherwise it falls off its end
\* and returns None.
wrapper(f, args) ==
    /\ once_call = NoCurrent
    /\ Len(once_log) < MaxCalls
    /\ IF has_run[f] = FALSE
       THEN /\ has_run' = [has_run EXCEPT ![f] = TRUE]
            /\ once_call' = [f |-> f, args |-> args, before |-> has_run[f]]
            /\ invocations' = Append(invocations, [f |-> f, args |-> args])
            /\ UNCHANGED once_log
       ELSE /\ once_log' = Append(once_log,
                               Ended(f, args, has_run[f], FALSE, "return", None,
                                     ""))
            /\ UNCHANGED <<has_run, once_call, invocations>>
    /\ UNCHANGED <<notOnce, once_outer>>

\* core.py:56-58: the wrapper is called from the body of the function that
\* is running, which waits for the call when it invokes a function.
wrapperInside(f, args) ==
    /\ once_call # NoCurrent
    /\ Len(once_log) + Len(once_outer) + 1 < MaxCalls
    /\ IF has_run[f] = FALSE
       THEN /\ has_run' = [has_run EXCEPT ![f] = TRUE]
            /\ once_outer' = Append(once_outer, once_call)
            /\ once_call' = [f |-> f, args |-> args, before |-> has_run[f]]
            /\ invocations' = Append(invocations, [f |-> f, args |-> args])
            /\ UNCHANGED once_log
       ELSE /\ once_log' = Append(once_log,
                               Ended(f, args, has_run[f], FALSE, "return", None,
                                     once_call.f))
            /\ UNCHANGED <<has_run, once_call, once_outer, invocations>>
    /\ UNCHANGED notOnce

\* The call that goes on when the one that is running has ended: the call
\* whose function made it, none for a call the script made.
Resumed == IF once_outer = <<>> THEN NoCurrent ELSE once_outer[Len(once_outer)]

\* core.py:58: the function returns v and the wrapper returns it.
FuncReturn(v) ==
    /\ once_call # NoCurrent
    /\ once_log' = Append(once_log,
                      Ended(once_call.f, once_call.args, once_call.before,
                            TRUE, "return", v, Resumed.f))
    /\ once_call' = Resumed
    /\ once_outer' = SubSeq(once_outer, 1, Len(once_outer) - 1)
    /\ UNCHANGED <<notOnce, has_run, invocations>>

\* A slip in the wrapper: an error of the function resets the flag.
FuncRaiseReset ==
    /\ once_call # NoCurrent
    /\ once_log' = Append(once_log,
                      Ended(once_call.f, once_call.args, once_call.before,
                            TRUE, "raise", None, Resumed.f))
    /\ has_run' = [has_run EXCEPT ![once_call.f] = FALSE]
    /\ once_call' = Resumed
    /\ once_outer' = SubSeq(once_outer, 1, Len(once_outer) - 1)
    /\ UNCHANGED <<notOnce, invocations>>

\* core.py:58: the function raises; its error leaves the wrapper (and is
\* raised in the body of the function that called, which may catch it).
FuncRaise ==
    /\ once_call # NoCurrent
    /\ once_log' = Append(once_log,
                      Ended(once_call.f, once_call.args, once_call.before,
                            TRUE, "raise", None, Resumed.f))
    /\ once_call' = Resumed
    /\ once_outer' = SubSeq(once_outer, 1, Len(once_outer) - 1)
    /\ UNCHANGED <<notOnce, has_run, invocations>>

OnceNext ==
    \/ \E f \in Funcs, a \in Args : wrapper(f, a)
    \/ \E v \in Values : FuncReturn(v)
    \/ FuncRaise

\* core.py:60: no thread has called a wrapper yet.
ThreadsInit == threads = [t \in 1..MaxThreads |-> [pc |-> "idle", f |-> ""]]

\* core.py:56: a thread calls the wrapper of f and evaluates the test, which
\* reads has_run; with has_run True the call returns None.
ThreadTest(t, f) ==
    /\ threads[t].pc = "idle"
    /\ threads' = [threads EXCEPT
                     ![t] = [pc |-> IF has_run[f] = FALSE THEN "set" ELSE "done",
                             f |-> f]]
    /\ UNCHANGED <<notThreads, has_run, invocations>>

\* core.py:57: the thread writes has_run.
ThreadSet(t) ==
    /\ threads[t].pc = "set"
    /\ has_run' = [has_run EXCEPT ![threads[t].f] = TRUE]
    /\ threads' = [threads EXCEPT ![t].pc = "call"]
    /\ UNCHANGED <<notThreads, invocations>>

\* core.py:58: the thread invokes the function and returns what it gives.
ThreadInvoke(t) ==
    /\ threads[t].pc = "call"
    /\ invocations' = Append(invocations, [f |-> threads[t].f, args |-> "x"])
    /\ threads' = [threads EXCEPT ![t].pc = "done"]
    /\ UNCHANGED <<notThreads, has_run>>

ThreadsNext ==
    \/ \E t \in 1..MaxThreads, f \in Funcs : ThreadTest(t, f)
    \/ \E t \in 1..MaxThreads : ThreadSet(t)
    \/ \E t \in 1..MaxThreads : ThreadInvoke(t)

NestedNext ==
    \/ \E f \in Funcs, a \in Args : wrapper(f, a)
    \/ \E f \in Funcs, a \in Args : wrapperInside(f, a)
    \/ \E v \in Values : FuncReturn(v)
    \/ FuncRaise

(***************************************************************************)
(* modes.py: mode, Mode and extends.  A dictionary of keyword arguments is *)
(* a function from some of the names to values.                            *)
(***************************************************************************)
Keys == {"inputs", "p1"}
Vals == {1, 2}
Dicts == UNION {[D -> Vals] : D \in SUBSET Keys}
Positional == {<<>>, <<"x">>}

\* The functions a collision policy is made of: each takes the key, the
\* current value and the value of the mode being processed.
Policies == {"current", "new"}
Policy(p, k, a, b) == IF p = "current" THEN a ELSE b
PolicyDicts == UNION {[D -> Policies] : D \in SUBSET Keys}

\* dict.update: the entries of d, and those of e over them.
Update(d, e) ==
    [k \in DOMAIN d \cup DOMAIN e |-> IF k \in DOMAIN e THEN e[k] ELSE d[k]]

\* modes.py:94-133
Mode(func, kwargs) == [_func |-> func, _kwargs |-> kwargs]

\* What a call showed: the call, how it ended ("return" or the error), the
\* invocations of the wrapped function and the value returned.
Outcome(op, m, args, kwargs, policy, how, invoked, ret) ==
    [op |-> op, modes |-> m, args |-> args, kwargs |-> kwargs,
     policy |-> policy, how |-> how, invoked |-> invoked, ret |-> ret]

NoOp == Outcome("none", <<>>, <<>>, <<>>, <<>>, "", <<>>, None)

ModesInit ==
    /\ mode_objs = <<>>
    /\ mode_last = NoOp

\* modes.py:60-89: mode(**kwargs)(func), or mode(func) with no keyword
\* arguments: a Mode is built on the next function of the script.
DefineMode(kwargs) ==
    /\ mode_last = NoOp
    /\ Len(mode_objs) < MaxModes
    /\ mode_objs' = Append(mode_objs, Mode(Len(mode_objs) + 1, kwargs))
    /\ UNCHANGED <<notModes, mode_last>>

\* A slip in the test of the call: no name is taken to collide.
CommonNone(stored, kwargs) == {}

\* modes.py:146
Common(stored, kwargs) == DOMAIN stored \cap DOMAIN kwargs

\* modes.py:139-152: Mode.__call__(*args, **kwargs); v is what the wrapped
\* function returns when it is called.
Mode__call__(i, args, kwargs, v) ==
    /\ mode_last = NoOp
    /\ i \in DOMAIN mode_objs
    /\ LET self == mode_objs[i]
           cm == Common(self._kwargs, kwargs)
       IN mode_last' =
            IF cm # {}
            THEN Outcome("call", <<self>>, args, kwargs, <<>>, "ValueError",
                         <<>>, None)
            ELSE Outcome("call", <<self>>, args, kwargs, <<>>, "return",
                         <<[func |-> self._func, args |-> args,
                            kwargs |-> Update(kwargs, self._kwargs)]>>, v)
    /\ UNCHANGED <<notModes, mode_objs>>

\* modes.py:47-55: one item (k, v) of a mode, on the dictionary built so
\* far; err tells that RuntimeError was raised.
ExtendItem(st, k, v, collision_policy) ==
    IF st.err THEN st
    ELSE IF k \in DOMAIN st.kwargs
         THEN IF k \in DOMAIN collision_policy
              THEN [err |-> FALSE,
                    kwargs |-> [st.kwargs EXCEPT ![k] =
                                  Policy(collision_policy[k], k, @, v)]]
              ELSE IF st.kwargs[k] # v
                   THEN [err |-> TRUE, kwargs |-> st.kwargs]
                   ELSE st
         ELSE [err |-> FALSE, kwargs |-> Update(st.kwargs, [x \in {k} |-> v])]

\* modes.py:45: the items of one mode, in the order of its dictionary.
RECURSIVE ExtendMode(_, _, _, _)
ExtendMode(st, m, todo, collision_policy) ==
    IF todo = {} THEN st
    ELSE LET k == CHOOSE x \in todo : TRUE
         IN ExtendMode(ExtendItem(st, k, m._kwargs[k], collision_policy),
                       m, todo \ {k}, collision_policy)

\* A slip in the loop: the modes are taken last first.
RECURSIVE ExtendModesReversed(_, _, _)
ExtendModesReversed(st, ms, collision_policy) ==
    IF ms = <<>> THEN st
    ELSE LET m == ms[Len(ms)]
         IN ExtendModesReversed(
                ExtendMode(st, m, DOMAIN m._kwargs, collision_policy),
                SubSeq(ms, 1, Len(ms) - 1), collision_policy)

\* modes.py:43: the modes, in the order of the list.
RECURSIVE ExtendModes(_, _, _)
ExtendModes(st, ms, collision_policy) ==
    IF ms = <<>> THEN st
    ELSE ExtendModes(ExtendMode(st, Head(ms), DOMAIN Head(ms)._kwargs,
                                collision_policy),
                     Tail(ms), collision_policy)

\* modes.py:40-57: extends(modes, kwargs, collision_policy) on the modes
\* defined so far; it returns the decorator mode(**kwargs).
extends(kwargs, collision_policy) ==
    /\ mode_last = NoOp
    /\ mode_objs # <<>>
    /\ LET st == ExtendModes([err |-> FALSE, kwargs |-> kwargs], mode_objs,
                             collision_policy)
       IN mode_last' =
            IF st.err
            THEN Outcome("extends", mode_objs, <<>>, kwargs, collision_policy,
                         "RuntimeError", <<>>, None)
            ELSE Outcome("extends", mode_objs, <<>>, kwargs, collision_policy,
                         "return", <<>>, st.kwargs)
    /\ UNCHANGED <<notModes, mode_objs>>

\* The script goes on after the call: to other definitions and calls.
ModeGoOn ==
    /\ mode_last # NoOp
    /\ mode_last' = NoOp
    /\ UNCHANGED <<notModes, mode_objs>>

ModesNext ==
    \/ \E kw \in Dicts : DefineMode(kw)
    \/ \E i \in 1..MaxModes, a \in Positional, kw \in Dicts, v \in Values :
          Mode__call__(i, a, kw, v)
    \/ \E kw \in Dicts, cp \in PolicyDicts : extends(kw, cp)
    \/ ModeGoOn

(***************************************************************************)
(* persistence.py: PersistenceDir and PersDirArg.  A path is a string: the *)
(* sequence of its characters, where a name without "/" and "." ("root",   *)
(* "a") stands as one character.  A directory on disk is the sequence of   *)
(* the names that lead to it from the working directory.                   *)
(***************************************************************************)
\* The paths __getitem__ is called with: a, b, f, a/b, .., a/.., /a, ../a
\* and a//b.
Paths ==
    {<<"a">>, <<"b">>, <<"f">>, <<"a", "/", "b">>, <<".", ".">>,
     <<"a", "/", ".", ".">>, <<"/", "a">>, <<".", ".", "/", "a">>,
     <<"a", "/", "/", "b">>}

\* The regular files on disk: root/f.
DiskFiles == {<< <<"root">>, <<"f">> >>}

\* str.find('/'): the place of the first "/" (0: none).
find(path) ==
    LET at == {i \in DOMAIN path : path[i] = "/"}
    IN IF at = {} THEN 0 ELSE CHOOSE i \in at : \A j \in at : i <= j

\* os.path.join of two strings.
os_path_join(a, b) ==
    IF b # <<>> /\ b[1] = "/" THEN b
    ELSE IF a = <<>> \/ a[Len(a)] = "/" THEN a \o b
    ELSE a \o <<"/">> \o b

\* What a path leads to on the disk ds, name by name from the directory
\* at: a directory, a regular file, nothing, or a place above the working
\* directory (which exists and is not looked into).  With make, the
\* directories that miss are made on the way, as os.makedirs does.
RECURSIVE Resolve(_, _, _, _)
Resolve(ds, at, path, make) ==
    LET l == find(path)
        c == IF l = 0 THEN path ELSE SubSeq(path, 1, l - 1)
        rest == IF l = 0 THEN <<>> ELSE SubSeq(path, l + 1, Len(path))
        to == Append(at, c)
        next == IF c \in {<<>>, <<".">>} THEN [kind |-> "dir", at |-> at, ds |-> ds]
                ELSE IF c = <<".", ".">>
                     THEN IF at = <<>> THEN [kind |-> "above", at |-> at, ds |-> ds]
                          ELSE [kind |-> "dir", at |-> SubSeq(at, 1, Len(at) - 1),
                                ds |-> ds]
                ELSE IF to \in ds THEN [kind |-> "dir", at |-> to, ds |-> ds]
                ELSE IF to \in DiskFiles THEN [kind |-> "file", at |-> to, ds |-> ds]
                ELSE IF make THEN [kind |-> "dir", at |-> to, ds |-> ds \cup {to}]
                ELSE [kind |-> "none", at |-> to, ds |-> ds]
    IN IF l = 0 \/ next.kind \in {"above", "none"} THEN next
       ELSE IF next.kind = "file" THEN [next EXCEPT !.kind = "none"]
       ELSE Resolve(next.ds, next.at, rest, make)

\* os.path.exists, os.path.isdir and os.makedirs, from the working directory.
exists(ds, path) == Resolve(ds, <<>>, path, FALSE).kind # "none"
isdir(ds, path) == Resolve(ds, <<>>, path, FALSE).kind \in {"dir", "above"}
makedirs(ds, path) == Resolve(ds, <<>>, path, TRUE).ds

\* persistence.py:95-96, the object built on a path; root is the object the
\* new one was reached from (itself for one built by its constructor).
PersistenceDir(path, root) ==
    [_path |-> path, _descendants |-> <<>>, root |-> root]

\* persistence.py:89-93: whether the constructor raises RuntimeError.
NotADirectory(ds, path) == exists(ds, path) /\ ~isdir(ds, path)

\* A script starts with the object PersistenceDir('root').
PersInit ==
    /\ pdirs = <<PersistenceDir(<<"root">>, 1)>>
    /\ dirs = {<< <<"root">> >>}
    /\ pers_calls = {}

\* persistence.py:109
Rejected(path) ==
    \/ path # <<>> /\ path[1] = "/"
    \/ \E i \in 1..(Len(path) - 1) : path[i] = "." /\ path[i + 1] = "/"

\* A slip in the lookup: no directory is taken to be known.
KnownNever(self, p) == FALSE

\* persistence.py:118
Known(self, p) == p \in DOMAIN self._descendants

\* persistence.py:109-134: self[path] on the objects ps and the disk ds;
\* gives the objects and the disk after the call, how it ended and the
\* object returned.
RECURSIVE __getitem__(_, _, _, _)
__getitem__(ps, ds, self, path) ==
    LET l == find(path)
        p == IF l = 0 THEN path ELSE SubSeq(path, 1, l - 1)
        rest == SubSeq(path, l + 1, Len(path))
        new_path == os_path_join(ps[self]._path, p)
        d == Len(ps) + 1
        ps1 == Append([ps EXCEPT ![self]._descendants =
                          Update(@, [x \in {p} |-> d])],
                      PersistenceDir(new_path, ps[self].root))
        ds1 == IF exists(ds, new_path) THEN ds ELSE makedirs(ds, new_path)
    IN IF Rejected(path) \/ (~Known(ps[self], p) /\ NotADirectory(ds, new_path))
       THEN [ps |-> ps, ds |-> ds, how |-> "RuntimeError", ret |-> 0]
       ELSE IF Known(ps[self], p)
            THEN IF l = 0
                 THEN [ps |-> ps, ds |-> ds, how |-> "return",
                       ret |-> ps[self]._descendants[p]]
                 ELSE __getitem__(ps, ds, ps[self]._descendants[p], rest)
            ELSE IF l # 0 THEN __getitem__(ps1, ds1, d, rest)
                 ELSE [ps |-> ps1, ds |-> ds1, how |-> "return", ret |-> d]

\* What a call showed: the call (self is a PersistenceDir object, arg the
\* members of a PersDirArg), how it ended, the object or the dictionary it
\* returned, the caller's dictionary after it, the directories it made and
\* the number of objects it built.
PersCall(op, self, arg, path, kwargs, how, ret, result, after, made, built) ==
    [op |-> op, self |-> self, arg |-> arg, path |-> path, kwargs |-> kwargs,
     how |-> how, ret |-> ret, result |-> result, after |-> after,
     made |-> made, built |-> built]

\* persistence.py:98-134, a call self[path] of the script.
PersistenceDir__getitem__(self, path) ==
    /\ Cardinality(pers_calls) < MaxPersCalls
    /\ self \in DOMAIN pdirs
    /\ LET r == __getitem__(pdirs, dirs, self, path)
       IN /\ pdirs' = r.ps
          /\ dirs' = r.ds
          /\ pers_calls' = pers_calls \cup
                {PersCall("getitem", self, <<>>, path, <<>>, r.how, r.ret,
                          <<>>, <<>>, r.ds \ dirs, Len(r.ps) - Len(pdirs))}
    /\ UNCHANGED notPers

\* The PersDirArg objects: (arg, path, use_func_name), and the dictionaries
\* their method is called with, for the function "dummy".
PersDirArgs == {"ppath"} \X {<<"out">>, <<"root">>} \X BOOLEAN
KwargsGiven == UNION {[D -> {0}] : D \in {{}, {"ppath"}, {"other"}}}
__name__ == <<"dummy">>

\* A slip in the copy: the dictionary of the caller itself is worked on.
dictSame(kwargs) == kwargs

\* persistence.py:39: dict(kwargs), a dictionary of its own.
dict(kwargs) == [id |-> "copy", items |-> kwargs.items]

\* persistence.py:31-53: PersDirArg(arg, path, ufn).append_to_kwargs(mode,
\* kwargs), mode being the function "dummy".
append_to_kwargs(self, given) ==
    /\ Cardinality(pers_calls) < MaxPersCalls
    /\ LET arg == self[1]
           caller == [id |-> "caller", items |-> given]
           kwargs == dict(caller)
           path == IF self[3] THEN os_path_join(self[2], __name__) ELSE self[2]
           raised == arg \in DOMAIN kwargs.items
           d == Len(pdirs) + 1
           result == Update(kwargs.items, [x \in {arg} |-> d])
           ds1 == IF exists(dirs, path) THEN dirs ELSE makedirs(dirs, path)
       IN IF raised
          THEN /\ pers_calls' = pers_calls \cup
                     {PersCall("append", 0, self, path, given,
                               "RuntimeError", 0, <<>>, given, {}, 0)}
               /\ UNCHANGED <<pdirs, dirs>>
          ELSE /\ pdirs' = Append(pdirs, PersistenceDir(path, d))
               /\ dirs' = ds1
               /\ pers_calls' = pers_calls \cup
                     {PersCall("append", 0, self, path, given, "return", d,
                               result,
                               IF kwargs.id = caller.id THEN result ELSE given,
                               ds1 \ dirs, 1)}
    /\ UNCHANGED notPers

PersNext ==
    \E i \in 1..(1 + 2 * MaxPersCalls), q \in Paths :
        PersistenceDir__getitem__(i, q)

ArgNext ==
    \/ \E a \in PersDirArgs, kw \in KwargsGiven : append_to_kwargs(a, kw)
    \/ \E q \in {<<"a">>, <<"f">>} : PersistenceDir__getitem__(2, q)

(***************************************************************************)
(* parsers.py: ModeArgumentParser and CallArgsProxy.  The parser has the   *)
(* option --main-arg, each parser of a mode has the option --test (both    *)
(* store_true); a namespace is a function from names to values, written    *)
(* as strings.                                                             *)
(***************************************************************************)
\* parsers.py:14
CALLABLE_NAME == "mode"

ModeNames == {"mode_1", "mode_2"}

\* The function that defines the mode of a name.
Function(name) ==
    IF name = "mode_1" THEN "<function mode_1>" ELSE "<function mode_2>"

\* The command lines parsed.
Argv ==
    {<<>>, <<"--main-arg">>, <<"mode_1">>, <<"mode_2", "--test">>,
     <<"--main-arg", "mode_1", "--other">>, <<"mode_3">>}

Bool(b) == IF b THEN "True" ELSE "False"

NoProxy == [function |-> "", args |-> <<>>, unknown_args |-> <<>>]

\* What a call showed: the call, how it ended ("return" or the error), the
\* proxy returned, the invocations made through the proxy and whether the
\* call printed to the standard output.
Parsed(op, argv, how, proxy, printed) ==
    [op |-> op, argv |-> argv, how |-> how, proxy |-> proxy,
     invoked |-> <<>>, printed |-> printed]

NoParse == Parsed("none", <<>>, "", NoProxy, FALSE)

\* parsers.py:59-62
ParserInit ==
    /\ _modes = <<>>
    /\ _callable_name = "None"
    /\ subparsers = [added |-> FALSE, defaults |-> <<>>]
    /\ parse_last = NoParse

\* parsers.py:151-170: define_modes(modes, callable_name), defaults being
\* None and apply_to_parsers adding --test.  (A second call would end in
\* the error of add_subparsers.)
define_modes(modes, callable_name) ==
    /\ parse_last = NoParse
    /\ ~subparsers.added
    /\ subparsers' =
          [added |-> TRUE,
           defaults |-> [m \in Range(modes) |->
                           [x \in {callable_name} |-> Function(m)]]]
    /\ _callable_name' = callable_name
    /\ _modes' = [m \in Range(modes) |-> Function(m)]
    /\ UNCHANGED <<notParser, parse_last>>

\* argparse: parse_known_args(argv).  Options before the sub-command are
\* those of the parser, the first other argument chooses the parser of a
\* mode, which gets the rest; its attributes and defaults are set over
\* those of the parser.  ok is FALSE when argparse ends in SystemExit: a
\* sub-command that is required and missing, or unknown.
parse_known_args(argv) ==
    LET at == {i \in DOMAIN argv : argv[i] \in ModeNames \cup {"mode_3"}}
        k == IF at = {} THEN 0 ELSE CHOOSE i \in at : \A j \in at : i <= j
        main == IF subparsers.added /\ k # 0 THEN SubSeq(argv, 1, k - 1)
                ELSE argv
        sub == IF subparsers.added /\ k # 0
               THEN SubSeq(argv, k + 1, Len(argv)) ELSE <<>>
        top == [x \in {"main_arg"} |-> Bool("--main-arg" \in Range(main))]
        extras == SelectSeq(main, LAMBDA t : t # "--main-arg")
                      \o SelectSeq(sub, LAMBDA t : t # "--test")
    IN IF ~subparsers.added
       THEN [ok |-> TRUE, args |-> top, unknown |-> extras]
       ELSE IF k = 0 \/ argv[k] \notin DOMAIN subparsers.defaults
            THEN [ok |-> FALSE, args |-> top, unknown |-> extras]
            ELSE [ok |-> TRUE,
                  args |-> Update(
                      Update(top, [x \in {CALLABLE_NAME} |-> argv[k]]),
                      Update([x \in {"test"} |-> Bool("--test" \in Range(sub))],
                             subparsers.defaults[argv[k]])),
                  unknown |-> extras]

\* parsers.py:74-75: whether the wrapper of _mode_set_checker raises.
_mode_set_checker == _modes = <<>>

\* parsers.py:95-100: the proxy _build_callable gives when it does not
\* raise.
_build_callable(args, unknown_args) ==
    [function |-> args[_callable_name],
     args |-> [x \in DOMAIN args \ {_callable_name} |-> args[x]],
     unknown_args |-> unknown_args]

\* parsers.py:172-184
mode(name) ==
    /\ parse_last = NoParse
    /\ parse_last' =
          Parsed("mode", <<name>>,
                 IF _mode_set_checker THEN "RuntimeError"
                 ELSE IF name \in DOMAIN _modes THEN "return" ELSE "KeyError",
                 NoProxy, FALSE)
    /\ UNCHANGED <<notParser, _modes, _callable_name, subparsers>>

\* parsers.py:186-201: parse_args ends in SystemExit when an argument is
\* left over; the proxy is built without unknown arguments (None).
parse_args_with_callable(argv) ==
    /\ parse_last = NoParse
    /\ LET r == parse_known_args(argv)
       IN parse_last' =
            IF ~r.ok \/ r.unknown # <<>>
            THEN Parsed("parse_args", argv, "SystemExit", NoProxy, FALSE)
            ELSE IF _mode_set_checker
                 THEN Parsed("parse_args", argv, "RuntimeError", NoProxy, FALSE)
                 ELSE Parsed("parse_args", argv, "return",
                             _build_callable(r.args, <<>>), FALSE)
    /\ UNCHANGED <<notParser, _modes, _callable_name, subparsers>>

\* parsers.py:203-218: the namespace and the unknown arguments are printed
\* before the proxy is built.
parse_known_args_with_callable(argv) ==
    /\ parse_last = NoParse
    /\ LET r == parse_known_args(argv)
       IN parse_last' =
            IF ~r.ok
            THEN Parsed("parse_known_args", argv, "SystemExit", NoProxy, FALSE)
            ELSE IF _mode_set_checker
                 THEN Parsed("parse_known_args", argv, "RuntimeError", NoProxy,
                             TRUE)
                 ELSE Parsed("parse_known_args", argv, "return",
                             _build_callable(r.args, r.unknown), TRUE)
    /\ UNCHANGED <<notParser, _modes, _callable_name, subparsers>>

\* parsers.py:27-31 and 233-237: the proxy is called; the function of the
\* mode is called with the attributes of the namespace as keyword arguments.
CallArgsProxy__call__ ==
    /\ parse_last.how = "return"
    /\ parse_last.op # "mode"
    /\ parse_last.invoked = <<>>
    /\ parse_last' = [parse_last EXCEPT !.invoked =
                        <<[func |-> parse_last.proxy.function,
                           kwargs |-> parse_last.proxy.args]>>]
    /\ UNCHANGED <<notParser, _modes, _callable_name, subparsers>>

\* The script goes on after the call.
ParserGoOn ==
    /\ parse_last # NoParse
    /\ parse_last' = NoParse
    /\ UNCHANGED <<notParser, _modes, _callable_name, subparsers>>

ParserNext ==
    \/ \E ms \in {<<>>, <<"mode_1">>, <<"mode_1", "mode_2">>},
          cn \in {CALLABLE_NAME, "func"} : define_modes(ms, cn)
    \/ \E n \in ModeNames : mode(n)
    \/ \E a \in Argv : parse_args_with_callable(a)
    \/ \E a \in Argv : parse_known_args_with_callable(a)
    \/ CallArgsProxy__call__
    \/ ParserGoOn

(***************************************************************************)
(* The specifications.                                                     *)
(***************************************************************************)
\* The state of dependencies() while no call is made.
DepsIdle ==
    /\ DepsInit
    /\ \A f \in DOMAIN imports : imports[f] = {}
    /\ raises = {}

CallNext ==
    \/ \E ap \in BOOLEAN, ps \in PoolSizes : Call(ap, ps)
    \/ ChildLoad
    \/ \E m \in Modules : ChildInspect(m)
    \/ ChildReturn
    \/ ChildExcept
    \/ ChildSend
    \/ ChildExit
    \/ Recv
    \/ Join
    \/ CheckRaise
    \/ CheckOk
    \/ StartRound
    \/ \E w \in DOMAIN workers, f \in tasks : WorkerTake(w, f)
    \/ \E w \in DOMAIN workers : WorkerDone(w)
    \/ MapRaise
    \/ EndRound
    \/ Return

DepsNext ==
    \/ CallNext
    \/ \E ap \in BOOLEAN, ps \in PoolSizes : CallAgain(ap, ps)

\* One dependencies() call on every environment and every choice of options.
InitOne ==
    /\ DepsInit /\ RedirInit /\ OnceInit /\ ModesInit /\ PersInit /\ ParserInit
    /\ ThreadsInit
SpecOne == InitOne /\ [][CallNext]_vars

\* One dependencies() call in an environment where every probe returns (no
\* file raises when direct_dependencies is run on it), and in which every
\* process goes on while it can: the child and the workers of the pool run
\* to their end and the parent is scheduled.  The call asks for absolute
\* paths: abspath is read after the loop only (deps.py:80).
InitLive ==
    /\ InitOne
    /\ \A f \in DOMAIN imports : ~DirectRaises(f, pkg_name)

LiveNext ==
    \/ \E ps \in PoolSizes : Call(TRUE, ps)
    \/ ChildLoad
    \/ \E m \in Modules : ChildInspect(m)
    \/ ChildReturn
    \/ ChildSend
    \/ ChildExit
    \/ Recv
    \/ Join
    \/ CheckOk
    \/ StartRound
    \/ \E w \in DOMAIN workers, f \in tasks : WorkerTake(w, f)
    \/ \E w \in DOMAIN workers : WorkerDone(w)
    \/ EndRound
    \/ Return

SpecLive == InitLive /\ [][LiveNext]_vars /\ WF_vars(LiveNext)

\* The use of redirect_stdstream scopes by one process.
\* The state in which nothing of the package has been called yet.
AllIdle ==
    /\ DepsIdle /\ RedirInit /\ OnceInit /\ ModesInit /\ PersInit /\ ParserInit
    /\ ThreadsInit

InitRedirect == AllIdle
SpecRedirect == InitRedirect /\ [][RedirNext]_vars

\* Calls, one after the other, of functions decorated with run_once.
InitRunOnce == AllIdle
SpecRunOnce == InitRunOnce /\ [][OnceNext]_vars

\* Calls of functions decorated with run_once, from the script and from
\* the body of the functions.
InitNested == AllIdle
SpecNested == InitNested /\ [][NestedNext]_vars

\* Threads that call the wrappers of run_once at the same time, each thread
\* once; a thread may be suspended between any two statements of the wrapper.
InitThreads == AllIdle
SpecThreads == InitThreads /\ [][ThreadsNext]_vars

\* Modes are defined, called and extended.
InitModes == AllIdle
SpecModes == InitModes /\ [][ModesNext]_vars

\* Calls on the persistence directories of a script.
InitPers == AllIdle
SpecPers == InitPers /\ [][PersNext]_vars

\* Calls of PersDirArg objects, and of the objects they give.
InitArg == AllIdle
SpecArg == InitArg /\ [][ArgNext]_vars

\* Calls on a ModeArgumentParser.
InitParser == AllIdle
SpecParser == InitParser /\ [][ParserNext]_vars

Init ==
    /\ DepsInit /\ RedirInit /\ OnceInit /\ ModesInit /\ PersInit /\ ParserInit
    /\ ThreadsInit

Next == DepsNext

\* Two dependencies() calls, one after the other, on the same environment.
Spec == Init /\ [][Next]_vars

(***************************************************************************)
(* Notions the properties are stated with.                                 *)
(***************************************************************************)
\* The direct dependencies of a file on the package of the call: what
\* direct_dependencies gives for it (nothing for a file that cannot be
\* probed).
DirectOn(g) ==
    IF g \in DOMAIN imports /\ ~DirectRaises(g, pkg_name)
    THEN direct_dependencies(g, pkg_name, TRUE)
    ELSE {}

\* The least set that holds S and the direct dependencies of its members.
RECURSIVE ClosureOf(_)
ClosureOf(S) ==
    LET N == S \cup UNION {DirectOn(g) : g \in S}
    IN IF N = S THEN S ELSE ClosureOf(N)

\* The files reachable from the seed by one or more direct-dependency steps.
Reachable == ClosureOf(DirectOn(pyfile))

\* The files that paths denote, each named by its normalised absolute
\* path: a relative path is resolved against the directory of the seed file.
Denoted(paths) == {normpath(join(dirname(pyfile), q)) : q \in paths}

\* The files of the returned result.
ResultFiles == Denoted(outcome.value)

\* The direct dependencies of the file that the normalised path n names.
DirectOf(n) ==
    Denoted(UNION {DirectOn(g) : g \in {x \in DOMAIN imports : normpath(x) = n}})

File(m) == ModFile(m)

\* A module is the package itself or one of its sub-modules.
InPackage(name, pkg) == name = pkg \/ StartsWith(name, pkg \o <<".">>)

(***************************************************************************)
(* Properties of dependencies().                                           *)
(***************************************************************************)
\* C1: whenever dependencies(F, P) returns, its result holds every direct
\* dependency of F on P and, for every file G in it, every direct dependency
\* of G on P: also on graphs with cycles and shared dependencies.
C1_ResultClosed ==
    outcome.kind = "return" =>
        /\ DirectOf(pyfile) \subseteq ResultFiles
        /\ \A g \in ResultFiles : DirectOf(g) \subseteq ResultFiles

\* A returned result on a graph with a cycle (a and b depend on each other)
\* and a shared dependency (a is a dependency of the seed and of b).
C1_Witness ==
    /\ outcome.kind = "return"
    /\ \E a, b \in ResultFiles :
         /\ a # b
         /\ b \in DirectOf(a)
         /\ a \in DirectOf(b)
         /\ a \in DirectOf(pyfile)

\* The environment main -> m1 -> m2 -> m3.
IsChain ==
    /\ imports[pyfile] = {"pkg.m1"}
    /\ imports[File("pkg.m1")] = {"pkg.m2"}
    /\ imports[File("pkg.m2")] = {"pkg.m3"}
    /\ imports[File("pkg.m3")] = {}
    /\ raises = {}

\* C2: every returned path is reachable from F by one or more
\* direct-dependency steps; on the chain main -> m1 -> m2 -> m3 the result is
\* exactly the files of m1, m2 and m3.
C2_ResultReachable ==
    outcome.kind = "return" =>
        /\ ResultFiles \subseteq Denoted(Reachable)
        /\ IsChain =>
             ResultFiles = {File("pkg.m1"), File("pkg.m2"), File("pkg.m3")}

C2_Witness == outcome.kind = "return" /\ IsChain /\ rounds = 3

\* C3: when loading the seed file raises, the call never creates the pool
\* and dispatches no file, it returns no set, and the one error it raises is
\* the RuntimeError that names the seed file.
C3_SeedFailure ==
    (pyfile \in raises /\ pc # "idle") =>
        /\ pool = "none"
        /\ rounds = 0
        /\ tasks = {}
        /\ \A f \in ModuleFiles : expanded[f] = 0
        /\ pc \notin {"loop", "map", "done"}
        /\ outcome \in {NoOutcome, Raised("RuntimeError", pyfile)}
        /\ (pc = "raised") = (outcome # NoOutcome)

C3_Witness ==
    /\ pyfile \in raises
    /\ pc = "raised"
    /\ outcome = Raised("RuntimeError", pyfile)

AfterRecv == {"join", "check", "loop", "map", "done", "raised"}

\* C4: in every run of the seed probe the child sends exactly one message
\* before it exits, the parent receives exactly one message and only then
\* waits for the child; the flag is set at most once and read once.
C4_OneMessage ==
    /\ nsent <= 1
    /\ (cpc \in {"close", "exited"}) = (nsent = 1 /\ pc # "idle")
    /\ nrecv <= nsent
    /\ Len(chan) = nsent - nrecv
    /\ (pc \in AfterRecv) = (nrecv = 1)
    /\ pc \in AfterRecv => recv_at_join = 1
    /\ pc \in AfterRecv \ {"join"} => cpc = "exited"
    /\ flag_sets <= 1
    /\ flag_reads = (IF pc \in {"loop", "map", "done", "raised"} THEN 1 ELSE 0)

\* The parent has received the one message of a failed extraction and the
\* child has ended.
C4_Witness ==
    /\ pc = "check"
    /\ except_event
    /\ nsent = 1
    /\ nrecv = 1
    /\ cpc = "exited"

C7_SameMembers ==
    (/\ first.outcome.kind = "return"
     /\ outcome.kind = "return"
     /\ first.abspath = abspath) =>
        outcome.value = first.outcome.value

\* Two returned calls with different pool sizes, the second after two rounds
\* with more than one file in its result.
C7_Witness ==
    /\ first.outcome.kind = "return"
    /\ outcome.kind = "return"
    /\ first.abspath = abspath
    /\ first.pool_size # pool_size
    /\ rounds >= 2
    /\ Cardinality(outcome.value) >= 3

\* The loop works on absolute paths, whatever the option of the call.
AllAbsolute ==
    \A d \in deps \cup diff \cup tasks \cup Chained(results) : IsAbs(d)

\* The results of an absolute and of a relative call on the same (F, P).
BothKinds ==
    /\ first.outcome.kind = "return"
    /\ outcome.kind = "return"
    /\ first.abspath # abspath

AbsValue == IF abspath THEN outcome.value ELSE first.outcome.value
RelValue == IF abspath THEN first.outcome.value ELSE outcome.value

C9_AllOrNothing ==
    /\ chan # <<>> =>
         Head(chan) = (IF except_event THEN {}
                       ELSE direct_dependencies(pyfile, pkg_name, TRUE))
    /\ pc \in {"join", "check"} =>
         deps = (IF except_event THEN {}
                 ELSE direct_dependencies(pyfile, pkg_name, TRUE))

\* A failed extraction that had recorded a file before it raised, and whose
\* message is on the pipe.
C9_Witness ==
    /\ chan # <<>>
    /\ except_event
    /\ c_local # {}
    /\ Head(chan) = {}

\* C10 as stated: the files direct_dependencies records are those of the
\* members defined by the package or by one of its sub-modules, and no
\* others.
C10_OnlyPackageModules ==
    (cpc = "send" /\ ~except_event) =>
        c_deps = {File(m) : m \in {x \in imports[pyfile] :
                                     InPackage(ModName(x), pkg_name)}}

\* C11: when the seed file loads without error and has no direct dependency
\* on the package, the call runs no expansion round, dispatches no file,
\* raises nothing and returns the empty collection.
C11_EmptyWithoutRound ==
    (/\ pc # "idle"
     /\ ~DirectRaises(pyfile, pkg_name)
     /\ direct_dependencies(pyfile, pkg_name, TRUE) = {}) =>
        /\ rounds = 0
        /\ tasks = {}
        /\ results = {}
        /\ \A f \in ModuleFiles : expanded[f] = 0
        /\ pc \notin {"map", "raised"}
        /\ outcome \in {NoOutcome, Returned({})}
        /\ (pc = "done") = (outcome = Returned({}))

\* A call on a seed file that binds nothing of the package has returned the
\* empty collection, as relative paths, with the pool created and no round.
C11_Witness ==
    /\ pc = "done"
    /\ imports[pyfile] = {}
    /\ raises = {}
    /\ ~abspath
    /\ pool = "open"
    /\ rounds = 0
    /\ outcome = Returned({})

(***************************************************************************)
(* Properties of redirect_stdstream.                                       *)
(***************************************************************************)
\* C5: when a redirect_stdstream scope exits, normally or by an error of its
\* body, the stream points again to the destination it had before the scope.
C5_StreamRestored ==
    \A k \in 1..Len(exited) : exited[k].after = exited[k].before

\* The text written in scope k, in the order of the writes.
RECURSIVE InOrder(_)
InOrder(S) ==
    IF S = {} THEN <<>>
    ELSE LET x == CHOOSE y \in S : \A z \in S : y.n <= z.n
         IN <<x>> \o InOrder(S \ {x})

\* Every piece of text there is: in a file, or held by a stream or by libc.
AllText ==
    UNION {Range(written[f]) : f \in Files}
        \cup UNION {Range(sys_stream[i].buf) \cup Range(c_stream[i]) :
                      i \in Streams}

WrittenIn(k) == {x \in AllText : x.scope = k}

\* C13 as stated: after a normal exit of a scope, its ostream holds all the
\* text written to the stream inside the scope, by Python and by C code, in
\* the order of the writes, and none of it is in the file the stream pointed
\* to before the scope; the ostream of a scope that is open is still empty.
C13_CapturedInOrder ==
    /\ \A e \in 1..Len(exited) :
         exited[e].how = "normal" =>
            /\ ostreams[exited[e].scope] = InOrder(WrittenIn(exited[e].scope))
            /\ \A x \in Range(written[exited[e].before]) :
                 x.scope # exited[e].scope
    /\ \A k \in 1..Len(scopes) : ostreams[scopes[k].ostream] = <<>>

(***************************************************************************)
(* Properties of run_once.                                                 *)
(***************************************************************************)
\* The calls of the wrapper of f that ended before the k-th ended call.
EarlierCalls(k) == {j \in 1..(k - 1) : once_log[j].f = once_log[k].f}

\* The invocations of the function f made so far.
InvocationsOf(f) == {i \in 1..Len(invocations) : invocations[i].f = f}

\* C12: has_run is False until the first call of the wrapper and True from
\* then on; the first call invokes the function once, with the arguments of
\* the call, and returns what the function returns; every later call finds
\* has_run True, does not invoke the function and returns None.
C12_RunOnce ==
    /\ \A f \in Funcs :
         /\ has_run[f] = (\/ \E k \in 1..Len(once_log) : once_log[k].f = f
                          \/ once_call.f = f)
         /\ Cardinality(InvocationsOf(f)) = (IF has_run[f] THEN 1 ELSE 0)
    /\ once_call # NoCurrent =>
         /\ ~once_call.before
         /\ invocations[Len(invocations)] =
                [f |-> once_call.f, args |-> once_call.args]
    /\ \A k \in 1..Len(once_log) :
         LET c == once_log[k]
         IN IF EarlierCalls(k) = {}
            THEN /\ ~c.before
                 /\ c.invoked
                 /\ \E i \in InvocationsOf(c.f) : invocations[i].args = c.args
            ELSE /\ c.before
                 /\ ~c.invoked
                 /\ c.how = "return"
                 /\ c.ret = None

\* A first call that returned the value of the function and two later calls
\* of the same wrapper, while the other function has not been called.
C12_Witness ==
    /\ Len(once_log) = 3
    /\ \A k \in 1..3 : once_log[k].f = "func"
    /\ once_log[1].how = "return"
    /\ once_log[1].ret = "1"
    /\ once_log[3].ret = None
    /\ has_run["func"]
    /\ ~has_run["load"]

(***************************************************************************)
(* Properties of Mode and extends.                                         *)
(***************************************************************************)
\* C14: a call of a Mode with a keyword argument named as one of its stored
\* ones raises ValueError and does not invoke the wrapped function; any
\* other call invokes it exactly once, with the positional arguments of the
\* call and its keyword arguments joined with the stored ones, and returns
\* what it returns.
C14_ModeCall ==
    mode_last.op = "call" =>
        LET self == mode_last.modes[1]
            given == mode_last.kwargs
        IN IF \E k \in DOMAIN given : k \in DOMAIN self._kwargs
           THEN /\ mode_last.how = "ValueError"
                /\ mode_last.invoked = <<>>
           ELSE /\ mode_last.how = "return"
                /\ Len(mode_last.invoked) = 1
                /\ mode_last.invoked[1].func = self._func
                /\ mode_last.invoked[1].args = mode_last.args
                /\ DOMAIN mode_last.invoked[1].kwargs =
                       DOMAIN given \cup DOMAIN self._kwargs
                /\ \A k \in DOMAIN given :
                       mode_last.invoked[1].kwargs[k] = given[k]
                /\ \A k \in DOMAIN self._kwargs :
                       mode_last.invoked[1].kwargs[k] = self._kwargs[k]
                /\ mode_last.ret \in Values

\* A call that collided on one name while it gave another one too.
C14_Witness ==
    /\ mode_last.op = "call"
    /\ mode_last.how = "ValueError"
    /\ DOMAIN mode_last.kwargs = Keys
    /\ DOMAIN mode_last.modes[1]._kwargs = {"inputs"}

\* The values given for the key k, in order: by the keyword arguments of
\* the call of extends, then by the modes of the list.
Given(k) ==
    LET first_ == IF k \in DOMAIN mode_last.kwargs
                  THEN <<mode_last.kwargs[k]>> ELSE <<>>
        having == SelectSeq(mode_last.modes, LAMBDA m : k \in DOMAIN m._kwargs)
    IN first_ \o [i \in 1..Len(having) |-> having[i]._kwargs[k]]

\* The policy p of the key k applied along the values vs, from the value cur.
RECURSIVE Folded(_, _, _, _)
Folded(p, k, cur, vs) ==
    IF vs = <<>> THEN cur
    ELSE Folded(p, k, Policy(p, k, cur, Head(vs)), Tail(vs))

\* The keys given two different values while no policy is there for them.
Unsettled ==
    {k \in Keys : /\ k \notin DOMAIN mode_last.policy
                  /\ \E i, j \in DOMAIN Given(k) : Given(k)[i] # Given(k)[j]}

\* C15: extends merges the stored keyword arguments of the modes in the
\* order of the list: a key takes the first value given for it; each later
\* value of a key with a policy replaces it by policy(key, current, new);
\* for a key with no policy a later value that differs raises RuntimeError
\* and an equal one changes nothing.
C15_ExtendsMerge ==
    mode_last.op = "extends" =>
        IF Unsettled # {}
        THEN mode_last.how = "RuntimeError"
        ELSE /\ mode_last.how = "return"
             /\ DOMAIN mode_last.ret = {k \in Keys : Given(k) # <<>>}
             /\ \A k \in DOMAIN mode_last.ret :
                  mode_last.ret[k] =
                     IF k \in DOMAIN mode_last.policy
                     THEN Folded(mode_last.policy[k], k, Head(Given(k)),
                                 Tail(Given(k)))
                     ELSE Head(Given(k))

\* Two modes that store different values for a key whose policy takes the
\* new one, and the same value for a key with no policy.
C15_Witness ==
    /\ mode_last.op = "extends"
    /\ mode_last.how = "return"
    /\ Len(mode_last.modes) = 2
    /\ DOMAIN mode_last.policy = {"inputs"}
    /\ mode_last.policy["inputs"] = "new"
    /\ \A i \in 1..2 : DOMAIN mode_last.modes[i]._kwargs = Keys
    /\ mode_last.modes[1]._kwargs["inputs"] # mode_last.modes[2]._kwargs["inputs"]
    /\ mode_last.ret["inputs"] = mode_last.modes[2]._kwargs["inputs"]
    /\ mode_last.ret["p1"] = mode_last.modes[1]._kwargs["p1"]

(***************************************************************************)
(* Properties of PersistenceDir and PersDirArg.                            *)
(***************************************************************************)
\* The calls self[path] that returned an object.
Got == {c \in pers_calls : c.op = "getitem" /\ c.how = "return"}

\* C16: every call d[p] that returns gives an object whose path is d's path
\* joined with p and whose directory is on disk; two calls d[p] give the
\* same object, and d[p/q] gives the object that d[p][q] gives.
C16_SingleObject ==
    \A c \in Got :
        /\ c.ret \in DOMAIN pdirs
        /\ pdirs[c.ret]._path = os_path_join(pdirs[c.self]._path, c.path)
        /\ isdir(dirs, pdirs[c.ret]._path)
        /\ \A c2 \in Got :
             (c2.self = c.self /\ c2.path = c.path) => c2.ret = c.ret
        /\ \A c2, c3 \in Got :
             (/\ c2.self = c.self
              /\ c3.self = c2.ret
              /\ c.path = c2.path \o <<"/">> \o c3.path) => c3.ret = c.ret

\* d['a/b'], d['a'] and d['a']['b'] were called on the root object, and gave
\* one object for a/b.
C16_Witness ==
    \E c, c2, c3 \in Got :
        /\ c.self = 1 /\ c.path = <<"a", "/", "b">>
        /\ c2.self = 1 /\ c2.path = <<"a">>
        /\ c3.self = c2.ret /\ c3.path = <<"b">>
        /\ c3.ret = c.ret
        /\ c.ret # c2.ret

\* The names of a path, between its "/".
RECURSIVE Names(_)
Names(path) ==
    LET l == find(path)
    IN IF l = 0 THEN {path}
       ELSE {SubSeq(path, 1, l - 1)} \cup Names(SubSeq(path, l + 1, Len(path)))

\* The directory of an object is the directory of its root or is below it.
Under(o) ==
    LET at == Resolve(dirs, <<>>, pdirs[o]._path, FALSE)
        top == Resolve(dirs, <<>>, pdirs[pdirs[o].root]._path, FALSE)
    IN /\ at.kind = "dir"
       /\ top.kind = "dir"
       /\ Len(at.at) >= Len(top.at)
       /\ SubSeq(at.at, 1, Len(top.at)) = top.at

\* C17 as stated: a call with an absolute path or with a path that has a
\* "." or ".." name is rejected with RuntimeError, and the path of every
\* object lies under the directory of its root.
C17_UnderRoot ==
    /\ \A c \in pers_calls :
         (/\ c.op = "getitem"
          /\ \/ c.path # <<>> /\ c.path[1] = "/"
             \/ Names(c.path) \cap {<<".">>, <<".", ".">>} # {}) =>
            c.how = "RuntimeError"
    /\ \A o \in DOMAIN pdirs : Under(o)

\* C18: append_to_kwargs leaves the dictionary of the caller as it was; when
\* arg is one of its keys it raises RuntimeError and makes no directory and
\* no object; otherwise it returns a dictionary with the entries of the
\* given one and, for arg, a PersistenceDir whose path is the stored path,
\* joined with the name of the mode when use_func_name is set, and whose
\* directory is on disk.
C18_AppendToKwargs ==
    \A c \in pers_calls :
        c.op = "append" =>
            /\ c.after = c.kwargs
            /\ IF c.arg[1] \in DOMAIN c.kwargs
               THEN /\ c.how = "RuntimeError"
                    /\ c.made = {}
                    /\ c.built = 0
               ELSE /\ c.how = "return"
                    /\ DOMAIN c.result = DOMAIN c.kwargs \cup {c.arg[1]}
                    /\ \A k \in DOMAIN c.kwargs : c.result[k] = c.kwargs[k]
                    /\ c.result[c.arg[1]] \in DOMAIN pdirs
                    /\ pdirs[c.result[c.arg[1]]]._path =
                          (IF c.arg[3]
                           THEN c.arg[2] \o <<"/">> \o __name__
                           ELSE c.arg[2])
                    /\ isdir(dirs, pdirs[c.result[c.arg[1]]]._path)

\* The dictionary that a call with use_func_name returned was given to
\* another call, which raised.
C18_Witness ==
    \E c, c2 \in pers_calls :
        /\ c.op = "append" /\ c.how = "return" /\ c.arg[3]
        /\ c.kwargs # <<>>
        /\ c.made # {}
        /\ c2.op = "append" /\ c2.how = "RuntimeError"

\* The name of the sub-command on the command line of a call.
Chosen(c) == CHOOSE n \in ModeNames : n \in Range(c.argv)

\* The arguments of a command line that are no option of the parser or of
\* the parser of the mode.
Unknown(c) ==
    SelectSeq(c.argv, LAMBDA t : t \notin ModeNames \cup {"--main-arg", "--test"})

\* C19: when a command line naming a mode was parsed by
\* parse_args_with_callable or parse_known_args_with_callable and the proxy
\* was called, the function of that mode and no other was invoked, once,
\* with the parsed options as keyword arguments and nothing else (neither the
\* callable entry nor any other attribute); the unknown arguments are kept in
\* unknown_args and are not passed.
C19_ProxyInvokesMode ==
    (parse_last.how = "return" /\ parse_last.op # "mode"
        /\ parse_last.invoked # <<>>) =>
        /\ Len(parse_last.invoked) = 1
        /\ parse_last.invoked[1].func = Function(Chosen(parse_last))
        /\ parse_last.invoked[1].kwargs =
              [x \in {"main_arg", "test"} |->
                 IF x = "main_arg"
                 THEN Bool("--main-arg" \in Range(parse_last.argv))
                 ELSE Bool("--test" \in Range(parse_last.argv))]
        /\ parse_last.proxy.unknown_args = Unknown(parse_last)

\* C20: while no mode is defined on the parser, mode(name),
\* parse_args_with_callable and parse_known_args_with_callable end in
\* RuntimeError; once define_modes has registered a mode, none of them ends
\* in that error.
C20_ModesNotDefined ==
    parse_last.op # "none" =>
        IF _modes = <<>>
        THEN parse_last.how = "RuntimeError"
        ELSE parse_last.how # "RuntimeError"

(***************************************************************************)
(* Properties of the expansion loop of dependencies().                     *)
(***************************************************************************)
\* C21: on every dependency graph, with or without import cycles, the
\* expansion loop ends once it is entered (every process going on): a round
\* leaves an empty diff exactly when all its candidates are already known,
\* the loop makes no round after that one but returns, and it never makes more
\* rounds than there are files reachable from the seed.
C21_LoopTerminates ==
    /\ [](rounds <= Cardinality(Reachable))
    /\ [][(pc = "map" /\ pc' = "loop") =>
            (diff' = {} <=> Chained(results) \subseteq deps)]_vars
    /\ [][(pc = "loop" /\ diff = {}) => (pc' = "done" /\ rounds' = rounds)]_vars
    /\ (pc = "loop") ~> (pc = "done")

\* A call on a graph with an import cycle returned after as many rounds as
\* there are reachable files, the last of which found known files only.
C21_Witness ==
    /\ pc = "done"
    /\ rounds = 2
    /\ Cardinality(Reachable) = 2
    /\ \E f, g \in Reachable :
         f # g /\ g \in DirectOn(f) /\ f \in DirectOn(g)

\* The files direct_dependencies has been run on by the pool in this call.
Dispatched == {f \in DOMAIN expanded : expanded[f] > 0}

\* C22: whenever the loop is at the start of a round, diff is exactly the set
\* of known files that have not been handed to the pool yet; no file is handed
\* to the pool more than once in a call; and when the call has returned, every
\* known file has been handed to the pool exactly once and no other file has.
C22_FrontierUnexpanded ==
    /\ pc = "loop" => diff = deps \ Dispatched
    /\ \A f \in DOMAIN expanded : expanded[f] <= 1
    /\ pc = "done" =>
         /\ \A f \in deps : expanded[f] = 1
         /\ Dispatched = deps

\* A call returned after two rounds or more on a graph in which a file of the
\* second round depends on a file of the first.
C22_Witness ==
    /\ pc = "done"
    /\ rounds >= 2
    /\ \E f \in DirectOn(pyfile), g \in deps \ DirectOn(pyfile) :
         g \in DirectOn(f) /\ f \in DirectOn(g)

\* C23: in a call, no step takes a file out of deps; the end of a round adds
\* to deps exactly the files the round gave that were not in it, which are
\* the next diff; and diff is a subset of deps in every state.
C23_KnownGrows ==
    /\ [][deps \subseteq deps']_vars
    /\ [][(pc = "map" /\ pc' = "loop") =>
            /\ deps' \ deps = (UNION {r.value : r \in results}) \ deps
            /\ diff' = deps' \ deps]_vars
    /\ [](diff \subseteq deps)

\* A round has ended that added files to a set that held files already, and
\* another that added none.
C23_Witness ==
    /\ pc = "done"
    /\ rounds >= 2
    /\ deps # DirectOn(pyfile)
    /\ DirectOn(pyfile) # {}

\* C24: in the seed probe, when the extraction fails the flag is set by the
\* time the message is sent; the flag the parent reads after the message
\* and the end of the child is set exactly when the extraction failed; and a
\* call whose extraction failed never comes to the expansion loop.
C24_FlagBeforeMessage ==
    /\ (nsent > 0 /\ DirectRaises(pyfile, pkg_name)) => except_event
    /\ pc = "check" => (cpc = "exited" /\ nrecv = 1)
    /\ flag_reads > 0 => (except_event <=> DirectRaises(pyfile, pkg_name))
    /\ DirectRaises(pyfile, pkg_name) =>
         (pc \notin {"loop", "map", "done"} /\ rounds = 0)

\* The extraction failed in the child, which sent the empty list; the parent
\* received it, read the flag and raised.
C24_Witness ==
    /\ DirectRaises(pyfile, pkg_name)
    /\ flag_sets = 1 /\ nsent = 1 /\ nrecv = 1 /\ flag_reads = 1
    /\ deps = {}
    /\ pc = "raised"

(***************************************************************************)
(* Properties of run_once under errors and calls from inside.              *)
(***************************************************************************)
\* The calls whose function body has begun and not ended.
Running == Range(once_outer) \cup ({once_call} \ {NoCurrent})

\* C25: has_run is True while the function runs; a call in which the
\* function raised ended with that error, has_run is True after it and
\* every call of the wrapper that ended later returned None without invoking
\* the function; a call of the wrapper made from the body of its own function
\* returned None without invoking it.  The function is never invoked twice.
C25_SetBeforeInvoke ==
    /\ \A c \in Running : has_run[c.f] /\ ~c.before
    /\ \A f \in Funcs : Cardinality(InvocationsOf(f)) <= 1
    /\ \A k \in 1..Len(once_log) :
         LET c == once_log[k]
         IN /\ c.how = "raise" =>
                 /\ c.invoked
                 /\ has_run[c.f]
                 /\ \A j \in (k + 1)..Len(once_log) :
                      once_log[j].f = c.f =>
                          /\ ~once_log[j].invoked
                          /\ once_log[j].how = "return"
                          /\ once_log[j].ret = None
            /\ c.inside = c.f =>
                 /\ ~c.invoked
                 /\ c.how = "return"
                 /\ c.ret = None

\* The function called its own wrapper, which returned None; then it
\* raised; a later call of the wrapper returned None.
C25_Witness ==
    /\ Len(once_log) = 3
    /\ \A k \in 1..3 : once_log[k].f = "func"
    /\ once_log[1].inside = "func"
    /\ once_log[2].how = "raise" /\ once_log[2].invoked
    /\ once_log[3].inside = "" /\ once_log[3].ret = None
    /\ Len(invocations) = 1

\* C26: whatever the interleaving of the threads that call the wrapper of a
\* function, the function is invoked at most once.
C26_OnceAcrossThreads ==
    \A f \in Funcs : Cardinality(InvocationsOf(f)) <= 1

\* C27: a call self[path] that ended in RuntimeError made no directory and
\* built (and registered) no object.
C27_RejectedChangesNothing ==
    \A c \in pers_calls :
        (c.op = "getitem" /\ c.how = "RuntimeError") =>
            (c.made = {} /\ c.built = 0)

====
